---- MODULE Spec2Model ----
(***************************************************************************)
(* Image-asset lifecycle of the profile application: the route handlers   *)
(* POST /api/upload/image, DELETE /api/delete/image, GET and PUT          *)
(* /api/profile/{userId}, the authentication callback, and the            *)
(* SupabaseStorage adapter they call.                                      *)
(*                                                                         *)
(* A URL or a store path is a sequence of tokens: the token "/" is the    *)
(* separator character, every other token is a run of characters that     *)
(* holds no "/".  The profiles table is a set of rows, the bucket a set    *)
(* of object paths.  Every handler is a chain of steps, one per awaited    *)
(* remote call; the code that runs between two awaits belongs to the step  *)
(* of the call that precedes it.                                           *)
(***************************************************************************)
EXTENDS Integers, Sequences, FiniteSets, TLC

\* ------------------------------------------------------------------ bounds

\* Largest value of the millisecond clock (Date.now()) the model explores.
MaxClock == 3

\* ------------------------------------------------------------- vocabulary

Users == {"u1", "u2"}
NoUser == "<none>"
Null == "<null>"
Undefined == "<undefined>"
NoImage == <<>>
Slash == "/"
Reqs == {"r1", "r2"}

BUCKET_NAME == "user-images"

\* ['profile', 'banner'].includes(imageType)
ImageTypes == {"profile", "banner"}

\* type parameters a client may send: the two kinds, an unknown one, none
TypeParams == {"profile", "banner", "avatar", ""}

AllowedTypes == {"image/jpeg", "image/jpg", "image/png", "image/webp"}

MaxSize == 5 * 1024 * 1024

\* ------------------------------------------------------------ validation

ValidationTypeError == "Please upload a valid image file (JPEG, PNG, or WebP)"
ValidationSizeError == "Image size must be less than 5MB"

\* validateImageFile without its size check
ValidateTypeOnly(file) ==
    IF file.type \notin AllowedTypes
    THEN [valid |-> FALSE, error |-> ValidationTypeError]
    ELSE [valid |-> TRUE, error |-> ""]

\* validateImageFile with its two checks in the other order
ValidateSizeFirst(file) ==
    IF file.size > 5 * 1024 * 1024
    THEN [valid |-> FALSE, error |-> ValidationSizeError]
    ELSE IF file.type \notin AllowedTypes
         THEN [valid |-> FALSE, error |-> ValidationTypeError]
         ELSE [valid |-> TRUE, error |-> ""]

\* validateImageFile with >= in place of >
ValidateInclusive(file) ==
    IF file.type \notin AllowedTypes
    THEN [valid |-> FALSE, error |-> ValidationTypeError]
    ELSE IF file.size >= 5 * 1024 * 1024
         THEN [valid |-> FALSE, error |-> ValidationSizeError]
         ELSE [valid |-> TRUE, error |-> ""]

ValidateImageFile(file) ==
    IF file.type \notin AllowedTypes
    THEN [valid |-> FALSE, error |-> ValidationTypeError]
    ELSE IF file.size > MaxSize
         THEN [valid |-> FALSE, error |-> ValidationSizeError]
         ELSE [valid |-> TRUE, error |-> ""]

\* -------------------------------------------------------- string surgery

\* s.split('/'): the runs of tokens between separators, empty runs included
RECURSIVE SplitFrom(_, _, _)
SplitFrom(s, i, cur) ==
    IF i > Len(s) THEN <<cur>>
    ELSE IF s[i] = Slash
         THEN <<cur>> \o SplitFrom(s, i + 1, <<>>)
         ELSE SplitFrom(s, i + 1, Append(cur, s[i]))

Split(s) == SplitFrom(s, 1, <<>>)

\* parts.join('/')
RECURSIVE Join(_)
Join(parts) ==
    IF Len(parts) = 0 THEN <<>>
    ELSE IF Len(parts) = 1 THEN parts[1]
         ELSE parts[1] \o <<Slash>> \o Join(Tail(parts))

\* urlParts.findIndex(part => part === 'user-images'); positions count from
\* 1 here, and 0 stands for the -1 of findIndex
FindBucket(parts) ==
    LET hits == {i \in 1..Len(parts) : parts[i] = <<BUCKET_NAME>>}
    IN IF hits = {} THEN 0
       ELSE CHOOSE i \in hits : \A j \in hits : i <= j

\* the check without its second half: pathIndex !== -1
HasBucket(url) == FindBucket(Split(url)) # 0

\* pathIndex !== -1 && pathIndex < urlParts.length - 1
HasPath(url) ==
    LET parts == Split(url)
        idx == FindBucket(parts)
    IN idx # 0 /\ idx < Len(parts)

\* urlParts.slice(pathIndex + 1).join('/')
ExtractPath(url) ==
    LET parts == Split(url)
        idx == FindBucket(parts)
    IN Join(SubSeq(parts, idx + 1, Len(parts)))

\* ------------------------------------------------------- storage adapter

\* supabase.storage.from(BUCKET_NAME).getPublicUrl(path)
UrlBase == <<"https:", Slash, Slash, "project.supabase.co", Slash,
             "storage", Slash, "public", Slash, BUCKET_NAME, Slash>>

PublicUrl(path) == UrlBase \o path

\* file.name.split('.').pop(): a file name is the sequence of its
\* dot-separated parts
FileExt(name) == name[Len(name)]

\* `${userId}/${imageType}-${Date.now()}.${fileExt}`
FileName(userId, imageType, clock, fileExt) ==
    <<userId, Slash, imageType \o "-" \o ToString(clock) \o "." \o fileExt>>

\* bucket.upload(fileName, file, {upsert: true}) when the store accepts it
StoreUpload(objects, path) == objects \cup {path}

\* bucket.remove([path]) when the store answers without an error; removing
\* a path that holds no object is no error
StoreRemove(objects, path) == objects \ {path}

\* the DELETE policy on storage.objects that is in force after the last
\* storage script: bucket_id = 'user-images' AND
\* auth.role() = 'authenticated'
DeletePolicy(uid, path) == uid # NoUser

\* bucket.remove([path]) by the client of user uid: the rows the policy
\* does not admit are passed over without an error
\* a store that reports success and removes nothing
RemoveDenied(objects, path, uid) == objects

\* a store that removes every object under the first segment of the path
RemoveFolder(objects, path, uid) ==
    IF path = <<>> THEN objects ELSE {p \in objects : p[1] # path[1]}

Remove(objects, path, uid) ==
    IF DeletePolicy(uid, path) THEN StoreRemove(objects, path) ELSE objects

\* ------------------------------------------------------- profiles table

\* identity-provider record of a user: data.user.email
EmailOf(u) == u \o "@example.com"

\* prisma.profile.findUnique({where: {userId}}): the rows with that userId
FindUnique(table, userId) == {row \in table : row.userId = userId}

\* {...row, ...data}
\* an update that takes the modification time for the creation time too
MergeRestamp(row, data) ==
    [f \in DOMAIN row |->
        IF f \in DOMAIN data THEN data[f]
        ELSE IF f = "createdAt" /\ "updatedAt" \in DOMAIN data
        THEN data.updatedAt
        ELSE row[f]]

Merge(row, data) ==
    [f \in DOMAIN row |-> IF f \in DOMAIN data THEN data[f] ELSE row[f]]

\* prisma.profile.update({where: {userId}, data}) on a table that holds the
\* row; the call throws when no row has that userId (see CanUpdate)
PrismaUpdate(table, userId, data) ==
    {IF row.userId = userId THEN Merge(row, data) ELSE row : row \in table}

CanUpdate(table, userId) == FindUnique(table, userId) # {}

\* what a failed update failed with: the database, or no row to update
UpdateError(ok) == IF ok THEN "not-found" ELSE "error"

\* the create branch of prisma.profile.upsert in the authentication callback
NewProfile(userId, email, fullName, clock) ==
    [id |-> "cuid-" \o userId, userId |-> userId, email |-> email,
     name |-> IF fullName \in {Undefined, ""} THEN Null ELSE fullName,
     country |-> Null, bio |-> Null,
     profileImage |-> NoImage, bannerImage |-> NoImage,
     createdAt |-> clock, updatedAt |-> clock]

\* imageType === 'profile' ? {profileImage: v} : {bannerImage: v}, with the
\* updatedAt the handler adds
ImageData(imageType, v, stamp) ==
    IF imageType = "profile"
    THEN [profileImage |-> v, updatedAt |-> stamp]
    ELSE [bannerImage |-> v, updatedAt |-> stamp]

\* a handler that reads the field of the other kind
OldImageUrlSwapped(imageType, cur) ==
    IF imageType = "profile" THEN cur.bannerImage ELSE cur.profileImage

\* imageType === 'profile' ? currentProfile.profileImage
\*                         : currentProfile.bannerImage
OldImageUrl(imageType, cur) ==
    IF imageType = "profile" THEN cur.profileImage ELSE cur.bannerImage

\* v || null
OrNull(v) == IF v \in {Undefined, "", Null} THEN Null ELSE v

\* the data of an update that leaves updatedAt alone
ProfileDataNoStamp(body, stamp) ==
    [name |-> OrNull(body.name), country |-> OrNull(body.country),
     bio |-> OrNull(body.bio)]

\* the data of the PUT handler's update
ProfileData(body, stamp) ==
    [name |-> OrNull(body.name), country |-> OrNull(body.country),
     bio |-> OrNull(body.bio), updatedAt |-> stamp]

\* ------------------------------------------------------------------ state

VARIABLES
    profiles,   \* the rows of the profiles table
    objects,    \* the paths that hold an object in the bucket
    now,        \* the millisecond clock read by Date.now() and new Date()
    req,        \* the handler invocations: inputs, position, locals, response
    auth,       \* AuthProvider in the browser: its state and effect closure
    camera      \* ImageUpload in the browser: its camera state and streams

vars == <<profiles, objects, now, req, auth, camera>>

\* the state of the service, and the state of the components in the browser
server == <<profiles, objects, now, req>>
client == <<auth, camera>>

\* AuthProvider before its effect has run: useState(null), useState(true)
InitAuth ==
    [user |-> NoUser, loading |-> TRUE,
     isMounted |-> FALSE, initialLoadDone |-> FALSE,
     getUser |-> "idle", asked |-> NoUser,
     session |-> NoUser, events |-> <<>>, handled |-> 0]

\* the two invocations of startCamera that may be under way at a time
Starts == {"s1", "s2"}

NoStream == 0

IdleStart == [pc |-> "idle", stream |-> NoStream, seen |-> NoStream]

\* ImageUpload after its first render: useState(false), useState(null)
InitCamera ==
    [showCamera |-> FALSE, cameraStream |-> NoStream, cameraError |-> FALSE,
     mounted |-> TRUE, live |-> {}, granted |-> 0,
     starts |-> [i \in Starts |-> IdleStart]]

NoFile == [present |-> FALSE, type |-> "", size |-> 0, name |-> <<"">>]

\* the files a client may post: a 100 KB PNG, a JPEG of exactly the limit,
\* a JPEG one byte over it, a 6 MB JPEG, a GIF, an oversized text file
Files ==
    {[present |-> TRUE, type |-> "image/png", size |-> 102400,
      name |-> <<"photo", "png">>],
     [present |-> TRUE, type |-> "image/jpeg", size |-> MaxSize,
      name |-> <<"scan", "final", "jpg">>],
     [present |-> TRUE, type |-> "image/jpeg", size |-> MaxSize + 1,
      name |-> <<"scan", "jpg">>],
     [present |-> TRUE, type |-> "image/jpeg", size |-> 6 * 1024 * 1024,
      name |-> <<"large", "jpg">>],
     [present |-> TRUE, type |-> "image/gif", size |-> 102400,
      name |-> <<"anim", "gif">>],
     [present |-> TRUE, type |-> "text/plain", size |-> 6 * 1024 * 1024,
      name |-> <<"notes", "txt">>]}

NoBody == [name |-> Undefined, country |-> Undefined, bio |-> Undefined]

\* the JSON bodies a client may PUT
Bodies ==
    {[name |-> "Alice", country |-> Undefined, bio |-> Undefined],
     [name |-> "Bob", country |-> "PK", bio |-> "hello"],
     [name |-> "", country |-> "PK", bio |-> Undefined]}

\* URLs that name no object path: no bucket segment at all, and the bucket
\* segment as the last segment
ForeignUrl == <<"https:", Slash, Slash, "cdn.example.com", Slash, "u1", Slash,
                "profile-1.png">>
BucketOnlyUrl == SubSeq(UrlBase, 1, Len(UrlBase) - 1)

\* the url parameters a client may send to DELETE: none, the malformed ones,
\* the bucket URL with a trailing separator, the URL of any stored object
\* and any URL a profile holds
UrlParams ==
    {<<>>, ForeignUrl, BucketOnlyUrl, UrlBase}
    \cup {PublicUrl(p) : p \in objects}
    \cup {row.profileImage : row \in profiles}
    \cup {row.bannerImage : row \in profiles}

NoResp == [status |-> 0, error |-> "", url |-> <<>>, path |-> <<>>,
           profile |-> {}]

ErrorResp(status, error) ==
    [status |-> status, error |-> error, url |-> <<>>, path |-> <<>>,
     profile |-> {}]

\* NextResponse.json({url, path, profile}) and the other 200 bodies
OkResp(url, path, profile) ==
    [status |-> 200, error |-> "", url |-> url, path |-> path,
     profile |-> profile]

IdleReq ==
    [pc |-> "idle", op |-> "", sess |-> NoUser, type |-> "", file |-> NoFile,
     url |-> <<>>, userId |-> "", body |-> NoBody,
     cur |-> {}, path |-> <<>>, oldPath |-> <<>>, stamp |-> 0,
     calls |-> <<>>, resp |-> NoResp,
     preProfiles |-> {}, preObjects |-> {}]

\* a remote call a handler has issued, with its argument and how it ended:
\* "ok", "error" (the service failed) or "not-found" (update found no row)
Call(api, arg, res) == [api |-> api, arg |-> arg, res |-> res]

Res(ok) == IF ok THEN "ok" ELSE "error"

Init ==
    /\ profiles = {}
    /\ objects = {}
    /\ now = 0
    /\ req = [r \in Reqs |-> IdleReq]
    /\ auth = InitAuth
    /\ camera = InitCamera

\* ---------------------------------------------------------------- requests

\* the requests a client may send, with or without a session
PostRequests ==
    {[IdleReq EXCEPT !.op = "POST", !.sess = u, !.type = t, !.file = f]
        : u \in Users \cup {NoUser}, t \in TypeParams, f \in Files \cup {NoFile}}

DeleteRequests ==
    {[IdleReq EXCEPT !.op = "DELETE", !.sess = u, !.type = t, !.url = l]
        : u \in Users \cup {NoUser}, t \in TypeParams, l \in UrlParams}

GetRequests ==
    {[IdleReq EXCEPT !.op = "GET", !.sess = u, !.userId = o]
        : u \in Users \cup {NoUser}, o \in Users}

PutRequests ==
    {[IdleReq EXCEPT !.op = "PUT", !.sess = u, !.userId = o, !.body = b]
        : u \in Users \cup {NoUser}, o \in Users, b \in Bodies}

InFlight == {q \in Reqs : req[q].pc \notin {"idle", "done"}}

\* A request reaches its handler.  Every handler first awaits getUser(), a
\* round trip to the identity provider that outlasts a millisecond: the
\* clock has room left for the tick of every request that has not made it.
Begin(r) ==
    /\ req[r].pc = "idle"
    /\ now + Cardinality({q \in Reqs : req[q].pc = "auth"}) < MaxClock
    /\ \E q \in PostRequests \cup DeleteRequests \cup GetRequests
                \cup PutRequests :
          req' = [req EXCEPT ![r] =
                    [q EXCEPT !.pc = "auth", !.preProfiles = profiles,
                              !.preObjects = objects]]
    /\ UNCHANGED <<profiles, objects, now, client>>

\* requests served one after another: the next one arrives when the
\* response of the one before it has been taken
Quiet == \A q \in Reqs : req[q].pc = "idle"

BeginAlone(r) ==
    /\ Quiet
    /\ r = "r1"
    /\ Begin(r)

\* the client has taken the response
Finish(r) ==
    /\ req[r].pc = "done"
    /\ req' = [req EXCEPT ![r] = IdleReq]
    /\ UNCHANGED <<profiles, objects, now, client>>

Respond(r, resp) ==
    req' = [req EXCEPT ![r].pc = "done", ![r].resp = resp]

\* a handler without the session check
UnauthorizedNever(q) == FALSE

\* error || !user
Unauthorized(q) == q.sess = NoUser

\* !imageType || !['profile', 'banner'].includes(imageType)
InvalidType(q) == q.type = "" \/ q.type \notin ImageTypes

\* ----------------------------------------------- POST /api/upload/image

\* getUser, formData and the checks on file and type, up to the call of
\* findUnique
PostAuth(r) ==
    LET q == req[r] IN
    /\ q.pc = "auth" /\ q.op = "POST"
    /\ now' = now + 1
    /\ IF Unauthorized(q)
       THEN Respond(r, ErrorResp(401, "Unauthorized"))
       ELSE IF ~q.file.present
       THEN Respond(r, ErrorResp(400, "No file provided"))
       ELSE IF InvalidType(q)
       THEN Respond(r, ErrorResp(400, "Invalid image type"))
       ELSE IF ~ValidateImageFile(q.file).valid
       THEN Respond(r, ErrorResp(400, ValidateImageFile(q.file).error))
       ELSE req' = [req EXCEPT ![r].pc = "read"]
    /\ UNCHANGED <<profiles, objects, client>>

\* findUnique resolves (or throws); uploadImage then names the new object
\* after the clock and calls the store
PostRead(r) ==
    LET q == req[r] IN
    /\ q.pc = "read" /\ q.op = "POST"
    /\ \E ok \in BOOLEAN :
          IF ok
          THEN req' = [req EXCEPT
                  ![r].pc = "upload",
                  ![r].calls = Append(q.calls,
                                      Call("findUnique", <<q.sess>>, "ok")),
                  ![r].cur = {[profileImage |-> row.profileImage,
                               bannerImage |-> row.bannerImage]
                                 : row \in FindUnique(profiles, q.sess)},
                  ![r].path = FileName(q.sess, q.type, now,
                                       FileExt(q.file.name))]
          ELSE req' = [req EXCEPT
                  ![r].pc = "done",
                  ![r].calls = Append(q.calls,
                                      Call("findUnique", <<q.sess>>, "error")),
                  ![r].resp = ErrorResp(500, "Internal server error")]
    /\ UNCHANGED <<profiles, objects, now, client>>

\* the previous image to delete, as the handler derives it from the profile
\* it read: the empty path when there is none
OldPath(q) ==
    IF q.cur = {} THEN <<>>
    ELSE LET cur == CHOOSE c \in q.cur : TRUE
             oldImageUrl == OldImageUrl(q.type, cur)
         IN IF oldImageUrl # NoImage /\ HasPath(oldImageUrl)
            THEN ExtractPath(oldImageUrl)
            ELSE <<>>

\* whether the handler calls deleteImage for the previous image
\* a handler that never deletes the old image
HasOldNever(q) == FALSE

HasOld(q) ==
    /\ q.cur # {}
    /\ LET oldImageUrl == OldImageUrl(q.type, CHOOSE c \in q.cur : TRUE)
       IN oldImageUrl # NoImage /\ HasPath(oldImageUrl)

\* the upload step of a handler that does not look at a null result
PostUploadUnchecked(r) ==
    LET q == req[r] IN
    /\ q.pc = "upload" /\ q.op = "POST"
    /\ \E ok \in BOOLEAN :
          /\ objects' = IF ok THEN StoreUpload(objects, q.path) ELSE objects
          /\ req' = [req EXCEPT
                ![r].pc = IF HasOld(q) THEN "delete" ELSE "update",
                ![r].calls = Append(q.calls, Call("upload", q.path, Res(ok))),
                ![r].url = PublicUrl(q.path),
                ![r].oldPath = OldPath(q),
                ![r].stamp = IF HasOld(q) THEN 0 ELSE now]
    /\ UNCHANGED <<profiles, now, client>>

\* the upload resolves: null makes the handler answer 500, a result makes
\* it go on to the previous image or straight to the profile update
PostUpload(r) ==
    LET q == req[r] IN
    /\ q.pc = "upload" /\ q.op = "POST"
    /\ \E ok \in BOOLEAN :
          IF ok
          THEN /\ objects' = StoreUpload(objects, q.path)
               /\ req' = [req EXCEPT
                     ![r].pc = IF HasOld(q) THEN "delete" ELSE "update",
                     ![r].calls = Append(q.calls, Call("upload", q.path, "ok")),
                     ![r].url = PublicUrl(q.path),
                     ![r].oldPath = OldPath(q),
                     ![r].stamp = IF HasOld(q) THEN 0 ELSE now]
          ELSE /\ objects' = objects
               /\ req' = [req EXCEPT
                     ![r].pc = "done",
                     ![r].calls = Append(q.calls,
                                         Call("upload", q.path, "error")),
                     ![r].resp = ErrorResp(500, "Upload failed")]
    /\ UNCHANGED <<profiles, now, client>>

\* the cleanup step of a handler that gives up when deleteImage returns false
PostDeleteStrict(r) ==
    LET q == req[r] IN
    /\ q.pc = "delete" /\ q.op = "POST"
    /\ \E ok \in BOOLEAN :
          /\ objects' = IF ok THEN Remove(objects, q.oldPath, q.sess) ELSE objects
          /\ req' = [req EXCEPT
                ![r].pc = IF ok THEN "update" ELSE "done",
                ![r].calls = Append(q.calls, Call("remove", q.oldPath, Res(ok))),
                ![r].stamp = now,
                ![r].resp = IF ok THEN NoResp
                            ELSE ErrorResp(500, "Failed to delete image")]
    /\ UNCHANGED <<profiles, now, client>>

\* deleteImage of the previous image resolves; its result is not looked at
\* the delete step of a handler that tries a failed delete a second time
PostDeleteRetry(r) ==
    LET q == req[r] IN
    /\ q.pc = "delete" /\ q.op = "POST"
    /\ \E ok \in BOOLEAN :
          /\ objects' = IF ok THEN Remove(objects, q.oldPath, q.sess) ELSE objects
          /\ req' = [req EXCEPT
                ![r].pc = IF ok \/ Len(q.calls) >= 3 THEN "update" ELSE "delete",
                ![r].calls = Append(q.calls, Call("remove", q.oldPath, Res(ok))),
                ![r].stamp = now]
    /\ UNCHANGED <<profiles, now, client>>

PostDelete(r) ==
    LET q == req[r] IN
    /\ q.pc = "delete" /\ q.op = "POST"
    /\ \E ok \in BOOLEAN :
          /\ objects' = IF ok THEN Remove(objects, q.oldPath, q.sess) ELSE objects
          /\ req' = [req EXCEPT
                ![r].pc = "update",
                ![r].calls = Append(q.calls, Call("remove", q.oldPath, Res(ok))),
                ![r].stamp = now]
    /\ UNCHANGED <<profiles, now, client>>

\* the update step of a handler that removes the new object when the update
\* throws
PostUpdateCompensating(r) ==
    LET q == req[r] IN
    /\ q.pc = "update" /\ q.op = "POST"
    /\ \E ok \in BOOLEAN :
          IF ok /\ CanUpdate(profiles, q.sess)
          THEN /\ profiles' = PrismaUpdate(profiles, q.sess,
                                  ImageData(q.type, q.url, q.stamp))
               /\ objects' = objects
               /\ req' = [req EXCEPT
                     ![r].pc = "done",
                     ![r].calls = Append(q.calls,
                                         Call("update", <<q.sess>>, "ok")),
                     ![r].resp = OkResp(q.url, q.path,
                                        FindUnique(profiles', q.sess))]
          ELSE /\ profiles' = profiles
               /\ objects' = Remove(objects, q.path, q.sess)
               /\ req' = [req EXCEPT
                     ![r].pc = "done",
                     ![r].calls = Append(q.calls,
                                         Call("update", <<q.sess>>,
                                              UpdateError(ok))),
                     ![r].resp = ErrorResp(500, "Internal server error")]
    /\ UNCHANGED <<now, client>>

\* the update step of a handler that writes only while the field still
\* holds what findUnique returned
PostUpdateIfUnchanged(r) ==
    LET q == req[r]
        unchanged == \A row \in FindUnique(profiles, q.sess) :
                        \E c \in q.cur : OldImageUrl(q.type, c)
                                           = OldImageUrl(q.type, row)
    IN
    /\ q.pc = "update" /\ q.op = "POST"
    /\ \E ok \in BOOLEAN :
          IF ok /\ CanUpdate(profiles, q.sess)
          THEN /\ profiles' = IF unchanged
                              THEN PrismaUpdate(profiles, q.sess,
                                       ImageData(q.type, q.url, q.stamp))
                              ELSE profiles
               /\ req' = [req EXCEPT
                     ![r].pc = "done",
                     ![r].calls = Append(q.calls,
                                         Call("update", <<q.sess>>, "ok")),
                     ![r].resp = OkResp(q.url, q.path,
                                        FindUnique(profiles', q.sess))]
          ELSE /\ profiles' = profiles
               /\ req' = [req EXCEPT
                     ![r].pc = "done",
                     ![r].calls = Append(q.calls,
                                         Call("update", <<q.sess>>,
                                              UpdateError(ok))),
                     ![r].resp = ErrorResp(500, "Internal server error")]
    /\ UNCHANGED <<objects, now, client>>

\* prisma.profile.update resolves, or throws into the catch block
PostUpdate(r) ==
    LET q == req[r] IN
    /\ q.pc = "update" /\ q.op = "POST"
    /\ \E ok \in BOOLEAN :
          IF ok /\ CanUpdate(profiles, q.sess)
          THEN /\ profiles' = PrismaUpdate(profiles, q.sess,
                                  ImageData(q.type, q.url, q.stamp))
               /\ req' = [req EXCEPT
                     ![r].pc = "done",
                     ![r].calls = Append(q.calls,
                                         Call("update", <<q.sess>>, "ok")),
                     ![r].resp = OkResp(q.url, q.path,
                                        FindUnique(profiles', q.sess))]
          ELSE /\ profiles' = profiles
               /\ req' = [req EXCEPT
                     ![r].pc = "done",
                     ![r].calls = Append(q.calls,
                                         Call("update", <<q.sess>>,
                                              UpdateError(ok))),
                     ![r].resp = ErrorResp(500, "Internal server error")]
    /\ UNCHANGED <<objects, now, client>>

\* ---------------------------------------------- DELETE /api/delete/image

\* getUser and the checks on type and url, up to the call of deleteImage
DeleteAuth(r) ==
    LET q == req[r] IN
    /\ q.pc = "auth" /\ q.op = "DELETE"
    /\ now' = now + 1
    /\ IF Unauthorized(q)
       THEN Respond(r, ErrorResp(401, "Unauthorized"))
       ELSE IF InvalidType(q)
       THEN Respond(r, ErrorResp(400, "Invalid image type"))
       ELSE IF q.url = <<>>
       THEN Respond(r, ErrorResp(400, "Image URL required"))
       ELSE IF ~HasPath(q.url)
       THEN Respond(r, ErrorResp(400, "Invalid image URL"))
       ELSE req' = [req EXCEPT ![r].pc = "delete",
                               ![r].path = ExtractPath(q.url)]
    /\ UNCHANGED <<profiles, objects, client>>

\* the delete step of a handler that does not look at the result of
\* deleteImage
DeleteRemoveUnchecked(r) ==
    LET q == req[r] IN
    /\ q.pc = "delete" /\ q.op = "DELETE"
    /\ \E ok \in BOOLEAN :
          /\ objects' = IF ok THEN Remove(objects, q.path, q.sess) ELSE objects
          /\ req' = [req EXCEPT
                ![r].pc = "update",
                ![r].calls = Append(q.calls, Call("remove", q.path, Res(ok))),
                ![r].stamp = now]
    /\ UNCHANGED <<profiles, now, client>>

\* the delete step against a store that reports an error for a path that
\* holds no object
DeleteRemoveMissingFails(r) ==
    LET q == req[r] IN
    /\ q.pc = "delete" /\ q.op = "DELETE"
    /\ \E ok \in BOOLEAN :
          IF ok /\ q.path \in objects
          THEN /\ objects' = Remove(objects, q.path, q.sess)
               /\ req' = [req EXCEPT
                     ![r].pc = "update",
                     ![r].calls = Append(q.calls, Call("remove", q.path, "ok")),
                     ![r].stamp = now]
          ELSE /\ objects' = objects
               /\ req' = [req EXCEPT
                     ![r].pc = "done",
                     ![r].calls = Append(q.calls,
                                         Call("remove", q.path,
                                              UpdateError(ok))),
                     ![r].resp = ErrorResp(500, "Failed to delete image")]
    /\ UNCHANGED <<profiles, now, client>>

\* deleteImage resolves: false makes the handler answer 500
DeleteRemove(r) ==
    LET q == req[r] IN
    /\ q.pc = "delete" /\ q.op = "DELETE"
    /\ \E ok \in BOOLEAN :
          IF ok
          THEN /\ objects' = Remove(objects, q.path, q.sess)
               /\ req' = [req EXCEPT
                     ![r].pc = "update",
                     ![r].calls = Append(q.calls, Call("remove", q.path, "ok")),
                     ![r].stamp = now]
          ELSE /\ objects' = objects
               /\ req' = [req EXCEPT
                     ![r].pc = "done",
                     ![r].calls = Append(q.calls,
                                         Call("remove", q.path, "error")),
                     ![r].resp = ErrorResp(500, "Failed to delete image")]
    /\ UNCHANGED <<profiles, now, client>>

\* the update step of a handler whose updateData has the two kinds swapped
DeleteUpdateSwapped(r) ==
    LET q == req[r]
        other == IF q.type = "profile" THEN "banner" ELSE "profile"
    IN
    /\ q.pc = "update" /\ q.op = "DELETE"
    /\ \E ok \in BOOLEAN :
          IF ok /\ CanUpdate(profiles, q.sess)
          THEN /\ profiles' = PrismaUpdate(profiles, q.sess,
                                  ImageData(other, NoImage, q.stamp))
               /\ req' = [req EXCEPT
                     ![r].pc = "done",
                     ![r].calls = Append(q.calls,
                                         Call("update", <<q.sess>>, "ok")),
                     ![r].resp = OkResp(<<>>, <<>>,
                                        FindUnique(profiles', q.sess))]
          ELSE /\ profiles' = profiles
               /\ req' = [req EXCEPT
                     ![r].pc = "done",
                     ![r].calls = Append(q.calls,
                                         Call("update", <<q.sess>>,
                                              UpdateError(ok))),
                     ![r].resp = ErrorResp(500, "Internal server error")]
    /\ UNCHANGED <<objects, now, client>>

\* the update step of a handler that clears the field only when it holds
\* the url of the request
DeleteUpdateIfHeld(r) ==
    LET q == req[r]
        held == \A row \in FindUnique(profiles, q.sess) :
                   OldImageUrl(q.type, row) = q.url
    IN
    /\ q.pc = "update" /\ q.op = "DELETE"
    /\ \E ok \in BOOLEAN :
          IF ok /\ CanUpdate(profiles, q.sess)
          THEN /\ profiles' = IF held
                              THEN PrismaUpdate(profiles, q.sess,
                                       ImageData(q.type, NoImage, q.stamp))
                              ELSE profiles
               /\ req' = [req EXCEPT
                     ![r].pc = "done",
                     ![r].calls = Append(q.calls,
                                         Call("update", <<q.sess>>, "ok")),
                     ![r].resp = OkResp(<<>>, <<>>,
                                        FindUnique(profiles', q.sess))]
          ELSE /\ profiles' = profiles
               /\ req' = [req EXCEPT
                     ![r].pc = "done",
                     ![r].calls = Append(q.calls,
                                         Call("update", <<q.sess>>,
                                              UpdateError(ok))),
                     ![r].resp = ErrorResp(500, "Internal server error")]
    /\ UNCHANGED <<objects, now, client>>

\* prisma.profile.update resolves, or throws into the catch block
DeleteUpdate(r) ==
    LET q == req[r] IN
    /\ q.pc = "update" /\ q.op = "DELETE"
    /\ \E ok \in BOOLEAN :
          IF ok /\ CanUpdate(profiles, q.sess)
          THEN /\ profiles' = PrismaUpdate(profiles, q.sess,
                                  ImageData(q.type, NoImage, q.stamp))
               /\ req' = [req EXCEPT
                     ![r].pc = "done",
                     ![r].calls = Append(q.calls,
                                         Call("update", <<q.sess>>, "ok")),
                     ![r].resp = OkResp(<<>>, <<>>,
                                        FindUnique(profiles', q.sess))]
          ELSE /\ profiles' = profiles
               /\ req' = [req EXCEPT
                     ![r].pc = "done",
                     ![r].calls = Append(q.calls,
                                         Call("update", <<q.sess>>,
                                              UpdateError(ok))),
                     ![r].resp = ErrorResp(500, "Internal server error")]
    /\ UNCHANGED <<objects, now, client>>

\* ------------------------------------------------ /api/profile/{userId}

\* a handler without the owner check
ForbiddenNever(q) == FALSE

\* user.id !== userId
Forbidden(q) == q.sess # q.userId

\* GET: getUser and the owner check, up to the call of findUnique
GetAuth(r) ==
    LET q == req[r] IN
    /\ q.pc = "auth" /\ q.op = "GET"
    /\ now' = now + 1
    /\ IF Unauthorized(q)
       THEN Respond(r, ErrorResp(401, "Unauthorized"))
       ELSE IF Forbidden(q)
       THEN Respond(r, ErrorResp(403, "Forbidden"))
       ELSE req' = [req EXCEPT ![r].pc = "read"]
    /\ UNCHANGED <<profiles, objects, client>>

\* GET: findUnique resolves (or throws)
GetRead(r) ==
    LET q == req[r]
        found == FindUnique(profiles, q.userId)
    IN
    /\ q.pc = "read" /\ q.op = "GET"
    /\ \E ok \in BOOLEAN :
          req' = [req EXCEPT
             ![r].pc = "done",
             ![r].calls = Append(q.calls, Call("findUnique", <<q.userId>>, Res(ok))),
             ![r].resp = IF ~ok
                         THEN ErrorResp(500, "Internal server error")
                         ELSE IF found = {}
                         THEN ErrorResp(404, "Profile not found")
                         ELSE OkResp(<<>>, <<>>, found)]
    /\ UNCHANGED <<profiles, objects, now, client>>

\* PUT: getUser, the owner check and the body, up to the call of update
PutAuth(r) ==
    LET q == req[r] IN
    /\ q.pc = "auth" /\ q.op = "PUT"
    /\ now' = now + 1
    /\ IF Unauthorized(q)
       THEN Respond(r, ErrorResp(401, "Unauthorized"))
       ELSE IF Forbidden(q)
       THEN Respond(r, ErrorResp(403, "Forbidden"))
       ELSE req' = [req EXCEPT ![r].pc = "update", ![r].stamp = now']
    /\ UNCHANGED <<profiles, objects, client>>

\* PUT: prisma.profile.update resolves, or throws into the catch block
PutUpdate(r) ==
    LET q == req[r] IN
    /\ q.pc = "update" /\ q.op = "PUT"
    /\ \E ok \in BOOLEAN :
          IF ok /\ CanUpdate(profiles, q.userId)
          THEN /\ profiles' = PrismaUpdate(profiles, q.userId,
                                           ProfileData(q.body, q.stamp))
               /\ req' = [req EXCEPT
                     ![r].pc = "done",
                     ![r].calls = Append(q.calls,
                                         Call("update", <<q.userId>>, "ok")),
                     ![r].resp = OkResp(<<>>, <<>>,
                                        FindUnique(profiles', q.userId))]
          ELSE /\ profiles' = profiles
               /\ req' = [req EXCEPT
                     ![r].pc = "done",
                     ![r].calls = Append(q.calls,
                                         Call("update", <<q.userId>>,
                                              UpdateError(ok))),
                     ![r].resp = ErrorResp(500, "Internal server error")]
    /\ UNCHANGED <<objects, now, client>>

\* ------------------------------------------------ authentication callback

\* a callback that creates a row whether or not there is one
UpsertInsert(table, userId, email, fullName, clock) ==
    table \cup {NewProfile(userId, email, fullName, clock)}

\* prisma.profile.upsert({where: {userId}, update: {email, updatedAt},
\* create: {userId, email, name}})
Upsert(table, userId, email, fullName, clock) ==
    IF FindUnique(table, userId) # {}
    THEN PrismaUpdate(table, userId, [email |-> email, updatedAt |-> clock])
    ELSE table \cup {NewProfile(userId, email, fullName, clock)}

\* GET /auth/callback with a code the identity provider accepts for user u:
\* the profile is upserted, and a database error is logged and passed over
AuthCallback(u) ==
    /\ now + Cardinality({q \in Reqs : req[q].pc = "auth"}) < MaxClock
    /\ now' = now + 1
    /\ \E ok \in BOOLEAN, fullName \in {Undefined, "Carol"} :
          profiles' = IF ok
                      THEN Upsert(profiles, u, EmailOf(u), fullName, now')
                      ELSE profiles
    /\ UNCHANGED <<objects, req, client>>

AuthCallbackAlone(u) ==
    /\ Quiet
    /\ AuthCallback(u)

\* ---------------------------------------------------------- specification

Step(r) ==
    \/ PostAuth(r) \/ PostRead(r) \/ PostUpload(r) \/ PostDelete(r)
    \/ PostUpdate(r)
    \/ DeleteAuth(r) \/ DeleteRemove(r) \/ DeleteUpdate(r)
    \/ GetAuth(r) \/ GetRead(r)
    \/ PutAuth(r) \/ PutUpdate(r)
    \/ Finish(r)

\* requests served one at a time
Next ==
    \/ \E r \in Reqs : BeginAlone(r)
    \/ \E r \in Reqs : Step(r)
    \/ \E u \in Users : AuthCallbackAlone(u)

Spec == Init /\ [][Next]_vars

\* ------------------------------------------------------------ properties

\* the calls of one kind a handler invocation has issued
Issued(q, api) == {i \in 1..Len(q.calls) : q.calls[i].api = api}

\* that kind of call was issued and ended with that result
Ended(q, api, res) == \E i \in Issued(q, api) : q.calls[i].res = res

\* profiles table and bucket are as they were when the request arrived
Untouched(q) == profiles = q.preProfiles /\ objects = q.preObjects

Done(r, op) == req[r].pc = "done" /\ req[r].op = op

\* the image field of a row that an image type names
ImageOf(row, imageType) ==
    IF imageType = "profile" THEN row.profileImage ELSE row.bannerImage

\* C1: a POST of an authenticated user with a file whose media type is not
\* allowed or whose size exceeds 5 MiB is answered 400 and has issued no
\* call (no read, upload, delete or update); table and bucket are as before.
C1_InvalidFileNoEffect ==
    \A r \in Reqs :
        LET q == req[r] IN
        (/\ Done(r, "POST") /\ q.sess # NoUser /\ q.file.present
         /\ (q.file.type \notin AllowedTypes \/ q.file.size > 5242880))
        => /\ q.resp.status = 400
           /\ q.calls = <<>>
           /\ Untouched(q)

\* a 6 MB JPEG posted with a valid type by a user who has a profile and an
\* object in the bucket was answered 400
C1_Witness ==
    \E r \in Reqs :
        LET q == req[r] IN
        /\ Done(r, "POST") /\ q.sess # NoUser /\ q.type \in ImageTypes
        /\ q.file.type = "image/jpeg" /\ q.file.size = 6291456
        /\ q.resp.status = 400
        /\ FindUnique(profiles, q.sess) # {}
        /\ \E p \in objects : p[1] = q.sess

\* C2: a POST whose upload failed is answered 500 "Upload failed", has
\* issued no delete and no update, and table and bucket are as before.
C2_UploadFailedNoEffect ==
    \A r \in Reqs :
        LET q == req[r] IN
        (Done(r, "POST") /\ Ended(q, "upload", "error"))
        => /\ q.resp = ErrorResp(500, "Upload failed")
           /\ Issued(q, "remove") = {}
           /\ Issued(q, "update") = {}
           /\ Untouched(q)

\* the upload failed for a user whose profile held a previous image of that
\* kind, and the previous object is still there
C2_Witness ==
    \E r \in Reqs :
        LET q == req[r] IN
        /\ Done(r, "POST") /\ Ended(q, "upload", "error")
        /\ HasOld(q)
        /\ OldPath(q) \in objects

\* C3: a POST whose delete of the previous object failed still goes on to
\* the profile update, and when that update succeeds the answer is 200 with
\* the new url and path and the updated profile, whose field of that kind
\* holds the new url.
C3_DeleteFailureSwallowed ==
    \A r \in Reqs :
        LET q == req[r] IN
        (Done(r, "POST") /\ Ended(q, "remove", "error"))
        => /\ Issued(q, "update") # {}
           /\ Ended(q, "update", "ok")
                => /\ q.resp = OkResp(PublicUrl(q.path), q.path,
                                      FindUnique(profiles, q.sess))
                   /\ \A row \in FindUnique(profiles, q.sess) :
                         ImageOf(row, q.type) = PublicUrl(q.path)
                   /\ FindUnique(profiles, q.sess) # {}

\* the delete of the previous object failed and the POST was answered 200
C3_Witness ==
    \E r \in Reqs :
        LET q == req[r] IN
        /\ Done(r, "POST") /\ Ended(q, "remove", "error")
        /\ q.resp.status = 200
        /\ q.oldPath \in objects

\* C4: a POST whose upload succeeded and whose profile update failed is
\* answered 500; the new object is in the bucket, no profile holds its URL,
\* and the handler has issued no delete of it.
C4_UpdateFailureOrphan ==
    \A r \in Reqs :
        LET q == req[r] IN
        (/\ Done(r, "POST") /\ Ended(q, "upload", "ok")
         /\ ~Ended(q, "update", "ok") /\ Issued(q, "update") # {})
        => /\ q.resp.status = 500
           /\ q.path \in objects
           /\ \A row \in profiles :
                 /\ row.profileImage # PublicUrl(q.path)
                 /\ row.bannerImage # PublicUrl(q.path)
           /\ \A i \in Issued(q, "remove") : q.calls[i].arg # q.path

\* the database failed the update of a user who has a profile, after the
\* upload and the delete of the previous object
C4_Witness ==
    \E r \in Reqs :
        LET q == req[r] IN
        /\ Done(r, "POST") /\ Ended(q, "upload", "ok")
        /\ Ended(q, "update", "error")
        /\ Ended(q, "remove", "ok")
        /\ FindUnique(profiles, q.sess) # {}

\* C5: a POST with a valid file by a user who has no profile row, with no
\* failure of the store or the database, issues no delete, is answered 200,
\* and leaves a row for that user whose field of that kind holds the new
\* url, which the response carries.
C5_AbsentProfileTolerated ==
    \A r \in Reqs :
        LET q == req[r] IN
        (/\ Done(r, "POST") /\ Ended(q, "findUnique", "ok") /\ q.cur = {}
         /\ Ended(q, "upload", "ok") /\ Issued(q, "update") # {}
         /\ ~Ended(q, "update", "error"))
        => /\ q.resp.status = 200
           /\ Issued(q, "remove") = {}
           /\ FindUnique(profiles, q.sess) # {}
           /\ \A row \in FindUnique(profiles, q.sess) :
                 ImageOf(row, q.type) = PublicUrl(q.path)
           /\ q.resp.profile = FindUnique(profiles, q.sess)

\* the url names an object path as the claim words it: some segment is the
\* bucket name and at least one segment follows it
NamesPath(url) ==
    \E i \in 1..Len(Split(url)) :
        Split(url)[i] = <<"user-images">> /\ i + 1 <= Len(Split(url))

\* C6: a DELETE of an authenticated user with a url that has no bucket
\* segment followed by a further segment is answered 400 and has issued no
\* call; table and bucket are as before.
C6_InvalidReferenceNoEffect ==
    \A r \in Reqs :
        LET q == req[r] IN
        (Done(r, "DELETE") /\ q.sess # NoUser /\ ~NamesPath(q.url))
        => /\ q.resp.status = 400
           /\ q.calls = <<>>
           /\ Untouched(q)

\* a DELETE with a valid type and the bucket URL without a path, by a user
\* with a profile, was answered 400 "Invalid image URL"
C6_Witness ==
    \E r \in Reqs :
        LET q == req[r] IN
        /\ Done(r, "DELETE") /\ q.sess # NoUser /\ q.type \in ImageTypes
        /\ q.url = BucketOnlyUrl
        /\ q.resp = ErrorResp(400, "Invalid image URL")
        /\ FindUnique(profiles, q.sess) # {}

\* C7: a DELETE whose store delete failed is answered 500 "Failed to delete
\* image" and has issued no profile update; the table is as before.
C7_DeleteFailedNoMutation ==
    \A r \in Reqs :
        LET q == req[r] IN
        (Done(r, "DELETE") /\ Ended(q, "remove", "error"))
        => /\ q.resp = ErrorResp(500, "Failed to delete image")
           /\ Issued(q, "update") = {}
           /\ profiles = q.preProfiles

\* the store delete failed for the URL the caller's profile holds in the
\* field of that kind
C7_Witness ==
    \E r \in Reqs :
        LET q == req[r] IN
        /\ Done(r, "DELETE") /\ Ended(q, "remove", "error")
        /\ \E row \in FindUnique(profiles, q.sess) :
              ImageOf(row, q.type) = q.url

\* C8: after a DELETE answered 200 the caller has one row, its field of
\* that kind is absent, its other image field and its name, country, bio
\* and email are as before the call, and the response carries that row.
C8_DeleteClearsKindOnly ==
    \A r \in Reqs :
        LET q == req[r]
            rows == FindUnique(profiles, q.sess)
            before == FindUnique(q.preProfiles, q.sess)
        IN
        (Done(r, "DELETE") /\ q.resp.status = 200)
        => /\ Cardinality(rows) = 1
           /\ q.resp.profile = rows
           /\ \A row \in rows :
                 /\ ImageOf(row, q.type) = NoImage
                 /\ \E old \in before :
                       /\ ImageOf(row, IF q.type = "profile" THEN "banner"
                                       ELSE "profile")
                          = ImageOf(old, IF q.type = "profile" THEN "banner"
                                         ELSE "profile")
                       /\ row.name = old.name
                       /\ row.country = old.country
                       /\ row.bio = old.bio
                       /\ row.email = old.email

\* a DELETE was answered 200 for a caller whose row held an image of that
\* kind and a name before the call
C8_Witness ==
    \E r \in Reqs :
        LET q == req[r] IN
        /\ Done(r, "DELETE") /\ q.resp.status = 200
        /\ \E old \in FindUnique(q.preProfiles, q.sess) :
              /\ ImageOf(old, q.type) # NoImage
              /\ old.name # Null

\* C9: a GET or PUT on the profile of another owner by an authenticated
\* caller is answered 403 "Forbidden", a response that carries no profile,
\* and has issued no read or write; table and bucket are as before.
C9_ForeignProfileForbidden ==
    \A r \in Reqs :
        LET q == req[r] IN
        (/\ q.pc = "done" /\ q.op \in {"GET", "PUT"}
         /\ q.sess # NoUser /\ q.sess # q.userId)
        => /\ q.resp = ErrorResp(403, "Forbidden")
           /\ q.calls = <<>>
           /\ Untouched(q)

\* a GET of a signed-in user on the existing, named profile of another
\* owner was answered 403
C9_Witness ==
    \E r \in Reqs :
        LET q == req[r] IN
        /\ Done(r, "GET") /\ q.sess \in Users /\ q.sess # q.userId
        /\ q.resp.status = 403
        /\ \E row \in FindUnique(profiles, q.userId) : row.name # Null

\* C10: a request without a valid session is answered 401 "Unauthorized"
\* whatever its other parameters, and has issued no store or database call;
\* table and bucket are as before.
C10_NoSessionUnauthorized ==
    \A r \in Reqs :
        LET q == req[r] IN
        (q.pc = "done" /\ q.sess = NoUser)
        => /\ q.resp = ErrorResp(401, "Unauthorized")
           /\ q.calls = <<>>
           /\ Untouched(q)

\* a POST without a session, without a file and with an unknown type was
\* answered 401 while profiles exist
C10_Witness ==
    \E r \in Reqs :
        LET q == req[r] IN
        /\ Done(r, "POST") /\ q.sess = NoUser
        /\ ~q.file.present /\ q.type = "avatar"
        /\ q.resp.status = 401
        /\ profiles # {}

\* C11: a POST or DELETE of caller u neither creates nor deletes an object
\* whose path starts with the id of another owner, whatever url it is given.
C11_OwnerPartition ==
    \A r \in Reqs :
        LET q == req[r] IN
        (q.pc = "done" /\ q.op \in {"POST", "DELETE"})
        => \A p \in (objects \ q.preObjects) \cup (q.preObjects \ objects) :
              p[1] = q.sess

\* ------------------------------------------- validateImageFile by itself

\* the media types and the sizes validateImageFile is applied to
MediaTypes ==
    AllowedTypes \cup {"image/gif", "image/svg+xml", "image/bmp", "IMAGE/PNG",
                       "text/plain", "application/pdf", "video/mp4", ""}

FileSizes ==
    {0, 1, 102400, 5242879, 5242880, 5242881, 5242882, 6291456, 10485760}

\* a file is handed to the validation of the POST handler
InitValidate ==
    /\ profiles = {}
    /\ objects = {}
    /\ now = 0
    /\ auth = InitAuth
    /\ camera = InitCamera
    /\ \E t \in MediaTypes, z \in FileSizes :
          req = [r \in Reqs |->
                   IF r = "r1"
                   THEN [IdleReq EXCEPT
                           !.pc = "validate", !.op = "POST",
                           !.file = [present |-> TRUE, type |-> t, size |-> z,
                                     name |-> <<"upload", "bin">>]]
                   ELSE IdleReq]

\* const validation = storage.validateImageFile(file); a failure is
\* answered 400 with validation.error
Validate(r) ==
    LET q == req[r]
        validation == ValidateImageFile(q.file)
    IN
    /\ q.pc = "validate"
    /\ req' = [req EXCEPT
          ![r].pc = "validated",
          ![r].resp = IF ~validation.valid
                      THEN ErrorResp(400, validation.error)
                      ELSE NoResp]
    /\ UNCHANGED <<profiles, objects, now, client>>

NextValidate == \E r \in Reqs : Validate(r)

SpecValidate == InitValidate /\ [][NextValidate]_vars

\* C12: a file whose media type is none of image/jpeg, image/jpg, image/png
\* and image/webp is rejected with the media-type error, whatever its size.
C12_TypeErrorFirst ==
    \A r \in Reqs :
        LET q == req[r] IN
        (/\ q.pc = "validated"
         /\ q.file.type \notin {"image/jpeg", "image/jpg", "image/png",
                                "image/webp"})
        => q.resp = ErrorResp(400,
              "Please upload a valid image file (JPEG, PNG, or WebP)")

\* an oversized text file was rejected with the media-type error
C12_Witness ==
    \E r \in Reqs :
        LET q == req[r] IN
        /\ q.pc = "validated"
        /\ q.file.type = "text/plain" /\ q.file.size = 6291456
        /\ q.resp.error
             = "Please upload a valid image file (JPEG, PNG, or WebP)"

\* C13: a file of an allowed media type is rejected as too large exactly
\* when its size is greater than 5,242,880 bytes, and is accepted otherwise.
C13_SizeLimitStrict ==
    \A r \in Reqs :
        LET q == req[r] IN
        (/\ q.pc = "validated"
         /\ q.file.type \in {"image/jpeg", "image/jpg", "image/png",
                             "image/webp"})
        => /\ (q.resp = ErrorResp(400, "Image size must be less than 5MB"))
                <=> (q.file.size > 5242880)
           /\ (q.file.size <= 5242880) => (q.resp = NoResp)

\* a PNG of exactly 5,242,880 bytes was accepted
C13_Witness ==
    \E r \in Reqs :
        LET q == req[r] IN
        /\ q.pc = "validated"
        /\ q.file.type = "image/png" /\ q.file.size = 5242880
        /\ q.resp = NoResp

\* ------------------------------------------------- overlapping requests

\* the signed-in user whose requests overlap
Uploader == "u1"

\* the requests of that user that pass the checks of their handlers: uploads
\* of the 100 KB PNG and deletes of a url that names a path
UploadRequests ==
    {q \in PostRequests :
        /\ q.sess = Uploader /\ q.type \in ImageTypes
        /\ q.file.present /\ ValidateImageFile(q.file).valid
        /\ q.file.type = "image/png"}

RemovalRequests ==
    {q \in DeleteRequests :
        q.sess = Uploader /\ q.type \in ImageTypes /\ HasPath(q.url)}

\* such a request reaches its handler while another may be under way; the
\* second slot is taken only while the first is in use
BeginOverlapping(r) ==
    /\ req[r].pc = "idle"
    /\ r = "r1" \/ req["r1"].pc # "idle"
    /\ now + Cardinality({q \in Reqs : req[q].pc = "auth"}) < MaxClock
    /\ \E q \in UploadRequests \cup RemovalRequests :
          req' = [req EXCEPT ![r] = [q EXCEPT !.pc = "auth"]]
    /\ UNCHANGED <<profiles, objects, now, client>>

\* the steps of the upload and delete handlers
ImageStep(r) ==
    \/ PostAuth(r) \/ PostRead(r) \/ PostUpload(r) \/ PostDelete(r)
    \/ PostUpdate(r)
    \/ DeleteAuth(r) \/ DeleteRemove(r) \/ DeleteUpdate(r)
    \/ Finish(r)

\* uploads and deletes in any interleaving of their steps
NextOverlapping ==
    \/ \E r \in Reqs : BeginOverlapping(r)
    \/ \E r \in Reqs : ImageStep(r)
    \/ \E u \in Users : AuthCallbackAlone(u)

SpecOverlapping == Init /\ [][NextOverlapping]_vars

\* C14: two uploads that are under way or answered at the same time have
\* been given different object paths.
C14_UploadPathsDistinct ==
    \A a, b \in Reqs :
        (/\ a # b
         /\ Issued(req[a], "upload") # {}
         /\ Issued(req[b], "upload") # {})
        => req[a].path # req[b].path

\* the step of r is the successful profile update of a POST
WritesImage(r) ==
    /\ req[r].op = "POST" /\ req[r].pc = "update"
    /\ req'[r].pc = "done" /\ req'[r].resp.status = 200

\* C15: whenever the profile update of a POST writes a URL into an image
\* field, the object that URL names is in the bucket.
C15_WrittenUrlResolves ==
    [][\A r \in Reqs :
          WritesImage(r) => ExtractPath(req[r].url) \in objects]_vars

\* the step of r is a successful profile update of a POST or a DELETE
UpdatesImage(r) ==
    /\ req[r].op \in {"POST", "DELETE"} /\ req[r].pc = "update"
    /\ req'[r].pc = "done" /\ req'[r].resp.status = 200

\* C20: the image fields change in no other step than a successful profile
\* update of an upload or a delete, and the successful update of an upload
\* leaves the field of its kind holding the URL that upload was given: after
\* overlapping uploads the field holds the URL of the one whose update came
\* last, however their reads, uploads and deletes interleave.
C20_LastWriterWins ==
    [][/\ \A r \in Reqs :
             WritesImage(r)
             => /\ FindUnique(profiles', req[r].sess) # {}
                /\ \A row \in FindUnique(profiles', req[r].sess) :
                      ImageOf(row, req[r].type) = PublicUrl(req[r].path)
       /\ (\A r \in Reqs : ~UpdatesImage(r))
             => \A row \in profiles :
                   \E new \in FindUnique(profiles', row.userId) :
                      /\ new.profileImage = row.profileImage
                      /\ new.bannerImage = row.bannerImage]_vars

\* two uploads of one kind overlapped and were both answered 200 with
\* different URLs, and the field holds the URL of the one that started first
C20_Witness ==
    /\ Done("r1", "POST") /\ Done("r2", "POST")
    /\ req["r1"].resp.status = 200 /\ req["r2"].resp.status = 200
    /\ req["r1"].sess = req["r2"].sess /\ req["r1"].type = req["r2"].type
    /\ req["r1"].url # req["r2"].url
    /\ \E row \in FindUnique(profiles, req["r1"].sess) :
          ImageOf(row, req["r1"].type) = req["r1"].url

\* ------------------------------------------------- profile rows per user

\* C16 (as stated): a completed authentication callback leaves exactly one
\* row of its user, also when its database write failed.
C16_ExactlyOneAfterCallback ==
    [][\A u \in Users :
          AuthCallback(u) => Cardinality(FindUnique(profiles', u)) = 1]_vars

\* C16 (amended): a user never has more than one row, a row never
\* disappears, and a callback whose upsert went through leaves exactly one
\* row of its user; a callback whose upsert failed leaves the table as it
\* was, so a user without a row still has none.
C16_AtMostOneAndKept ==
    [][\A u \in Users :
          /\ Cardinality(FindUnique(profiles', u)) <= 1
          /\ FindUnique(profiles, u) # {} => FindUnique(profiles', u) # {}
          /\ (AuthCallback(u) /\ profiles' # profiles)
                => Cardinality(FindUnique(profiles', u)) = 1
          /\ (AuthCallback(u) /\ profiles' = profiles)
                => FindUnique(profiles', u) = FindUnique(profiles, u)]_vars

\* a user's row as a repeated callback leaves it: created by a callback,
\* touched again later, and never edited
C16_Witness ==
    \E row \in profiles :
        /\ row.name = "Carol" /\ row.country = Null /\ row.bio = Null
        /\ row.profileImage = NoImage /\ row.bannerImage = NoImage
        /\ row.updatedAt > row.createdAt

\* ------------------------------------------------------------ PUT profile

PatchFields == {"name", "country", "bio"}

\* C17: a PUT by the owner that the database did not fail leaves a row in
\* which every field of the body has the supplied value and every field the
\* body omits has the value it had before (the default when there was no
\* row).
C17_PutMerges ==
    \A r \in Reqs :
        LET q == req[r]
            before == FindUnique(q.preProfiles, q.userId)
        IN
        (/\ Done(r, "PUT") /\ q.sess \in Users /\ q.sess = q.userId
         /\ ~Ended(q, "update", "error"))
        => /\ q.resp.status = 200
           /\ FindUnique(profiles, q.userId) # {}
           /\ \A row \in FindUnique(profiles, q.userId) :
                 \A f \in PatchFields :
                    row[f] = IF q.body[f] # Undefined THEN q.body[f]
                             ELSE IF before = {} THEN Null
                             ELSE (CHOOSE b \in before : TRUE)[f]

\* ------------------------------------------------ deletes of one upload

\* the field of the request's kind as findUnique returned it
ReadField(q) ==
    IF q.cur = {} THEN NoImage
    ELSE ImageOf(CHOOSE c \in q.cur : TRUE, q.type)

\* the URLs of the objects the request asked the store to remove
RemovedUrls(q) == {PublicUrl(q.calls[i].arg) : i \in Issued(q, "remove")}

DeletesPrevious(q) ==
    /\ Cardinality(Issued(q, "remove")) <= 1
    /\ RemovedUrls(q) = IF ReadField(q) = NoImage THEN {} ELSE {ReadField(q)}

\* C19 (as stated): an upload that read the profile issues no remove when
\* the field of its kind was absent, and otherwise exactly one remove, of the
\* path of the URL it read.
C19_DeletesPrevious ==
    \A r \in Reqs :
        (Done(r, "POST") /\ Issued(req[r], "findUnique") # {})
        => DeletesPrevious(req[r])

\* C19 (amended): the same, for an upload whose object was stored; an
\* upload that failed in the store issues no remove at all.
C19_DeletesPreviousAfterUpload ==
    \A r \in Reqs :
        /\ (Done(r, "POST") /\ Ended(req[r], "upload", "ok"))
              => DeletesPrevious(req[r])
        /\ (Done(r, "POST") /\ ~Ended(req[r], "upload", "ok"))
              => Issued(req[r], "remove") = {}

\* an upload replaced an image: it was answered 200 and asked for the remove
\* of the path of the URL it read
C19_Witness ==
    \E r \in Reqs :
        /\ Done(r, "POST") /\ req[r].resp.status = 200
        /\ ReadField(req[r]) # NoImage
        /\ RemovedUrls(req[r]) = {ReadField(req[r])}
        /\ req[r].calls[CHOOSE i \in Issued(req[r], "remove") : TRUE].arg
              = ExtractPath(ReadField(req[r]))

\* ------------------------------------------- PUT followed by GET

ProfileRequests == PutRequests \cup GetRequests

\* a profile request arrives when no other is being served
BeginProfile(r) ==
    /\ Quiet
    /\ r = "r1"
    /\ now < MaxClock
    /\ \E q \in ProfileRequests :
          req' = [req EXCEPT ![r] =
                    [q EXCEPT !.pc = "auth", !.preProfiles = profiles,
                              !.preObjects = objects]]
    /\ UNCHANGED <<profiles, objects, now, client>>

\* the client that was answered 200 to its PUT reads the profile back
BeginReadBack(r) ==
    /\ r = "r2"
    /\ req[r].pc = "idle"
    /\ Done("r1", "PUT") /\ req["r1"].resp.status = 200
    /\ now < MaxClock
    /\ req' = [req EXCEPT ![r] =
                 [IdleReq EXCEPT !.op = "GET", !.sess = req["r1"].sess,
                                 !.userId = req["r1"].userId,
                                 !.pc = "auth", !.preProfiles = profiles,
                                 !.preObjects = objects]]
    /\ UNCHANGED <<profiles, objects, now, client>>

ProfileStep(r) ==
    \/ GetAuth(r) \/ GetRead(r)
    \/ PutAuth(r) \/ PutUpdate(r)
    \/ Finish(r)

NextRoundTrip ==
    \/ \E r \in Reqs : BeginProfile(r)
    \/ \E r \in Reqs : BeginReadBack(r)
    \/ \E r \in Reqs : ProfileStep(r)
    \/ \E u \in Users : AuthCallback(u)

SpecRoundTrip == Init /\ [][NextRoundTrip]_vars

\* C18: a GET that follows a PUT of {name: "Alice"} answered 200 returns the
\* name "Alice" and an updatedAt later than the one the row had before the
\* PUT.
C18_PutThenGet ==
    (/\ Done("r1", "PUT") /\ req["r1"].resp.status = 200
     /\ req["r1"].body.name = "Alice"
     /\ Done("r2", "GET") /\ req["r2"].resp.status = 200)
    => \A row \in req["r2"].resp.profile :
          /\ row.userId = req["r1"].userId
          /\ row.name = "Alice"
          /\ \A old \in FindUnique(req["r1"].preProfiles, req["r1"].userId) :
                row.updatedAt > old.updatedAt

\* the PUT renamed a profile and the GET after it was answered 200
C18_Witness ==
    /\ Done("r1", "PUT") /\ req["r1"].resp.status = 200
    /\ req["r1"].body.name = "Alice"
    /\ Done("r2", "GET") /\ req["r2"].resp.status = 200
    /\ req["r2"].resp.profile # {}
    /\ \E old \in FindUnique(req["r1"].preProfiles, req["r1"].userId) :
          old.name # "Alice"

\* ------------------------------------------- DELETE sent a second time

\* the state a sign-in and an upload of a profile image have left behind:
\* the user's row holds the URL of the one object in the bucket
StoredPath == FileName(Uploader, "profile", 0, "png")

InitStored ==
    /\ profiles = {[NewProfile(Uploader, EmailOf(Uploader), "Carol", 0)
                      EXCEPT !.profileImage = PublicUrl(StoredPath)]}
    /\ objects = {StoredPath}
    /\ now = 0
    /\ req = [r \in Reqs |-> IdleReq]
    /\ auth = InitAuth
    /\ camera = InitCamera

\* the service starts empty or with that row and object
InitImages == Init \/ InitStored

\* an upload or a delete of the signed-in user arrives when no other
\* request is being served
BeginImage(r) ==
    /\ Quiet
    /\ r = "r1"
    /\ now < MaxClock
    /\ \E q \in UploadRequests \cup RemovalRequests :
          req' = [req EXCEPT ![r] =
                    [q EXCEPT !.pc = "auth", !.preProfiles = profiles,
                              !.preObjects = objects]]
    /\ UNCHANGED <<profiles, objects, now, client>>

\* the client that was answered 200 to its DELETE sends the same DELETE again
BeginRepeat(r) ==
    /\ r = "r2"
    /\ req[r].pc = "idle"
    /\ Done("r1", "DELETE") /\ req["r1"].resp.status = 200
    /\ now < MaxClock
    /\ req' = [req EXCEPT ![r] =
                 [IdleReq EXCEPT !.op = "DELETE", !.sess = req["r1"].sess,
                                 !.type = req["r1"].type,
                                 !.url = req["r1"].url,
                                 !.pc = "auth", !.preProfiles = profiles,
                                 !.preObjects = objects]]
    /\ UNCHANGED <<profiles, objects, now, client>>

NextImages ==
    \/ \E r \in Reqs : BeginImage(r)
    \/ \E r \in Reqs : BeginRepeat(r)
    \/ \E r \in Reqs : ImageStep(r)
    \/ \E u \in Users : AuthCallbackAlone(u)

SpecImages == InitImages /\ [][NextImages]_vars

\* a row without its modification time
Unstamped(row) == [row EXCEPT !.updatedAt = 0]

\* C21: when a DELETE answered 200 is sent again and no call of the second
\* request fails (the store reports success for the path that holds nothing
\* any more), the second request is answered 200 as the first was, the field
\* of the kind is absent after it as after the first, nothing but updatedAt
\* differs between the two returned profiles, and the bucket is as the first
\* request left it.
C21_RepeatedDelete ==
    (/\ Done("r1", "DELETE") /\ req["r1"].resp.status = 200
     /\ Done("r2", "DELETE")
     /\ req["r2"].url = req["r1"].url /\ req["r2"].type = req["r1"].type
     /\ req["r2"].sess = req["r1"].sess
     /\ \A i \in 1..Len(req["r2"].calls) : req["r2"].calls[i].res # "error")
    => /\ req["r2"].resp.status = 200
       /\ req["r2"].resp.error = req["r1"].resp.error
       /\ objects = req["r2"].preObjects
       /\ req["r2"].resp.profile = FindUnique(profiles, req["r2"].sess)
       /\ req["r2"].resp.profile # {}
       /\ \A b \in req["r2"].resp.profile :
             /\ ImageOf(b, req["r2"].type) = NoImage
             /\ \E a \in req["r1"].resp.profile :
                   /\ ImageOf(a, req["r1"].type) = NoImage
                   /\ Unstamped(a) = Unstamped(b)

\* the first DELETE removed an object the bucket held, and the same DELETE
\* sent again was answered 200
C21_Witness ==
    /\ Done("r1", "DELETE") /\ req["r1"].resp.status = 200
    /\ req["r1"].path \in req["r1"].preObjects
    /\ Done("r2", "DELETE") /\ req["r2"].resp.status = 200
    /\ req["r2"].url = req["r1"].url
    /\ req["r2"].path \notin req["r2"].preObjects

\* ------------------------------------------- fields set at creation

\* the requests of the signed-in user on the user's own profile
OwnPutRequests == {q \in PutRequests : q.sess = Uploader /\ q.userId = Uploader}

\* an upload, a delete or a PUT of that user arrives when no other request
\* is being served
BeginMutation(r) ==
    /\ Quiet
    /\ r = "r1"
    /\ now < MaxClock
    /\ \E q \in UploadRequests \cup RemovalRequests \cup OwnPutRequests :
          req' = [req EXCEPT ![r] =
                    [q EXCEPT !.pc = "auth", !.preProfiles = profiles,
                              !.preObjects = objects]]
    /\ UNCHANGED <<profiles, objects, now, client>>

MutationStep(r) ==
    \/ PostAuth(r) \/ PostRead(r) \/ PostUpload(r) \/ PostDelete(r)
    \/ PostUpdate(r)
    \/ DeleteAuth(r) \/ DeleteRemove(r) \/ DeleteUpdate(r)
    \/ PutAuth(r) \/ PutUpdate(r)
    \/ Finish(r)

\* every operation that writes a row: the callback, PUT, POST and DELETE
NextMutations ==
    \/ \E r \in Reqs : BeginMutation(r)
    \/ \E r \in Reqs : MutationStep(r)
    \/ \E u \in Users : AuthCallbackAlone(u)

SpecMutations == InitImages /\ [][NextMutations]_vars

\* C22: in every step, every row is still there with the id, userId and
\* createdAt it had: the callback's upsert on an existing row, PUT, POST and
\* DELETE change none of them.
C22_CreationFieldsKept ==
    [][\A row \in profiles :
          \E new \in profiles' :
             /\ new.id = row.id
             /\ new.userId = row.userId
             /\ new.createdAt = row.createdAt]_vars

\* a row that a callback created and a PUT and an upload changed later
C22_Witness ==
    \E row \in profiles :
        /\ row.name = "Alice"
        /\ row.profileImage # NoImage
        /\ row.updatedAt > row.createdAt
        /\ row.id = "cuid-" \o row.userId

\* ------------------------------------------- the pipeline of POST

Pipeline == <<"findUnique", "upload", "remove", "update">>

Stage(api) == CHOOSE i \in 1..Len(Pipeline) : Pipeline[i] = api

\* C23: the calls of a POST are in the order read, upload, delete of the old
\* object, update, each issued at most once; a call is issued only when
\* every call before it succeeded, the delete of the old object excepted;
\* nothing but that delete is skipped; and the request has a response
\* exactly when it is done.
C23_LinearPass ==
    \A r \in Reqs :
        LET q == req[r] IN
        q.op = "POST"
        => /\ \A i \in 1..Len(q.calls) : q.calls[i].api \in
                 {Pipeline[k] : k \in 1..Len(Pipeline)}
           /\ \A i, j \in 1..Len(q.calls) :
                 i < j => Stage(q.calls[i].api) < Stage(q.calls[j].api)
           /\ \A i \in 1..Len(q.calls) :
                 i < Len(q.calls)
                 => q.calls[i].res = "ok" \/ q.calls[i].api = "remove"
           /\ \A i \in 1..Len(q.calls) :
                 \A k \in 1..(Stage(q.calls[i].api) - 1) :
                    Pipeline[k] = "remove" \/ Issued(q, Pipeline[k]) # {}
           /\ (q.pc = "done") <=> (q.resp # NoResp)
           /\ q.pc = "done" => q.resp.status \in {200, 400, 401, 500}

\* a POST that went through all four calls, the delete of the old object
\* failing, and was answered 200
C23_Witness ==
    \E r \in Reqs :
        /\ Done(r, "POST") /\ req[r].resp.status = 200
        /\ Len(req[r].calls) = 4
        /\ Ended(req[r], "remove", "error")

\* ------------------------------------------- modification time

\* C24: no step leaves a row with an earlier updatedAt than it had.
C24_UpdatedAtMonotone ==
    [][\A row \in profiles :
          \A new \in FindUnique(profiles', row.userId) :
             new.updatedAt >= row.updatedAt]_vars

\* ------------------------------------------- update failing after delete

\* every call of the request ended without an error
AllOk(q) == \A i \in 1..Len(q.calls) : q.calls[i].res = "ok"

\* C25: a POST whose upload and delete of the old object succeeded and whose
\* profile update failed is answered 500; the table is as it was, the field
\* of the kind still holds the URL that was read, and the object of that URL
\* is no longer in the bucket while the new object is.
C25_UpdateFailureDangles ==
    \A r \in Reqs :
        LET q == req[r] IN
        (/\ Done(r, "POST")
         /\ Ended(q, "upload", "ok") /\ Ended(q, "remove", "ok")
         /\ Issued(q, "update") # {} /\ ~Ended(q, "update", "ok"))
        => /\ q.resp = ErrorResp(500, "Internal server error")
           /\ profiles = q.preProfiles
           /\ ReadField(q) # NoImage
           /\ FindUnique(profiles, q.sess) # {}
           /\ \A row \in FindUnique(profiles, q.sess) :
                 /\ ImageOf(row, q.type) = ReadField(q)
                 /\ ExtractPath(ImageOf(row, q.type)) \notin objects
           /\ q.path \in objects
           /\ \A i \in Issued(q, "remove") : \A j \in Issued(q, "update") :
                 i < j

\* such a POST has happened: the object of the old URL was in the bucket
\* when the request began
C25_Witness ==
    \E r \in Reqs :
        /\ Done(r, "POST") /\ req[r].resp.status = 500
        /\ Ended(req[r], "remove", "ok") /\ Ended(req[r], "update", "error")
        /\ ExtractPath(ReadField(req[r])) \in req[r].preObjects
        /\ ExtractPath(ReadField(req[r])) \notin objects

\* ------------------------------------------- DELETE and the stored URL

OtherType(imageType) == IF imageType = "profile" THEN "banner" ELSE "profile"

\* C26: a DELETE answered 200 has cleared the field of its kind whatever
\* that field held; when it held another URL than the request's, the object
\* of that URL is still in the bucket if it was there before; the field of
\* the other kind is as before, also when it holds the URL of the request,
\* whose object is gone.
C26_DeleteIgnoresStoredUrl ==
    \A r \in Reqs :
        LET q == req[r] IN
        (Done(r, "DELETE") /\ q.resp.status = 200)
        => /\ FindUnique(q.preProfiles, q.sess) # {}
           /\ q.path \notin objects
           /\ \A a \in FindUnique(q.preProfiles, q.sess) :
                 \E b \in FindUnique(profiles, q.sess) :
                    /\ ImageOf(b, q.type) = NoImage
                    /\ ImageOf(b, OtherType(q.type))
                          = ImageOf(a, OtherType(q.type))
                    /\ (/\ ImageOf(a, q.type) \notin {NoImage, q.url}
                        /\ ExtractPath(ImageOf(a, q.type)) \in q.preObjects)
                       => ExtractPath(ImageOf(a, q.type)) \in objects
                    /\ ImageOf(a, OtherType(q.type)) = q.url
                       => ExtractPath(ImageOf(b, OtherType(q.type)))
                             \notin objects

\* a DELETE of kind banner with the URL held in the profile field, while
\* the banner field held the URL of another stored object
C26_Witness ==
    \E r \in Reqs :
        /\ Done(r, "DELETE") /\ req[r].resp.status = 200
        /\ \E a \in FindUnique(req[r].preProfiles, req[r].sess) :
              /\ ImageOf(a, req[r].type) \notin {NoImage, req[r].url}
              /\ ExtractPath(ImageOf(a, req[r].type)) \in objects
              /\ ImageOf(a, OtherType(req[r].type)) = req[r].url
              /\ req[r].path \in req[r].preObjects
        /\ \E b \in FindUnique(profiles, req[r].sess) :
              /\ ImageOf(b, req[r].type) = NoImage
              /\ ImageOf(b, OtherType(req[r].type)) = req[r].url

\* ------------------------------------------- overlapping uploads alone

\* an upload of the signed-in user arrives while another may be under way
BeginUpload(r) ==
    /\ req[r].pc = "idle"
    /\ r = "r1" \/ req["r1"].pc # "idle"
    /\ now + Cardinality({q \in Reqs : req[q].pc = "auth"}) < MaxClock
    /\ \E q \in UploadRequests :
          req' = [req EXCEPT ![r] =
                    [q EXCEPT !.pc = "auth", !.preProfiles = profiles,
                              !.preObjects = objects]]
    /\ UNCHANGED <<profiles, objects, now, client>>

UploadStep(r) ==
    \/ PostAuth(r) \/ PostRead(r) \/ PostUpload(r) \/ PostDelete(r)
    \/ PostUpdate(r)

\* two uploads, each answered once; the answers stay
NextUploads ==
    \/ \E r \in Reqs : BeginUpload(r)
    \/ \E r \in Reqs : UploadStep(r)
    \/ \E u \in Users : AuthCallbackAlone(u)

SpecUploads == InitImages /\ [][NextUploads]_vars

\* C27: when two uploads of one kind, overlapping or not, have both been
\* answered, no call of either failed and their paths differ, the field of
\* the kind holds the URL of one of them and the object of that URL is in
\* the bucket.
C27_NoDanglingAfterUploads ==
    (/\ Done("r1", "POST") /\ Done("r2", "POST")
     /\ req["r1"].type = req["r2"].type
     /\ AllOk(req["r1"]) /\ AllOk(req["r2"])
     /\ Issued(req["r1"], "update") # {} /\ Issued(req["r2"], "update") # {}
     /\ req["r1"].path # req["r2"].path)
    => /\ FindUnique(profiles, Uploader) # {}
       /\ \A row \in FindUnique(profiles, Uploader) :
             /\ ImageOf(row, req["r1"].type) \in {req["r1"].url, req["r2"].url}
             /\ ExtractPath(ImageOf(row, req["r1"].type)) \in objects

\* both uploads read the same old URL before either had updated, each
\* deleted its object, and the field holds the URL of the first
C27_Witness ==
    /\ Done("r1", "POST") /\ Done("r2", "POST")
    /\ req["r1"].type = req["r2"].type
    /\ AllOk(req["r1"]) /\ AllOk(req["r2"])
    /\ req["r1"].path # req["r2"].path
    /\ ReadField(req["r1"]) # NoImage
    /\ ReadField(req["r1"]) = ReadField(req["r2"])
    /\ Issued(req["r1"], "remove") # {} /\ Issued(req["r2"], "remove") # {}
    /\ \E row \in FindUnique(profiles, Uploader) :
          ImageOf(row, req["r1"].type) = req["r1"].url

\* ------------------------------------------- no orphan accumulates

\* every object is the one a field of its owner's row names, and every
\* field that is set names an object in the bucket
Tidy(table, store) ==
    /\ \A p \in store :
          \E row \in table :
             /\ row.userId = p[1]
             /\ \E k \in ImageTypes : ImageOf(row, k) = PublicUrl(p)
    /\ \A row \in table : \A k \in ImageTypes :
          ImageOf(row, k) # NoImage
          => /\ HasPath(ImageOf(row, k))
             /\ ExtractPath(ImageOf(row, k)) \in store
             /\ ExtractPath(ImageOf(row, k))[1] = row.userId

\* the url of the DELETE is the one the field of its kind held
GivenHeldUrl(q) ==
    \E row \in FindUnique(q.preProfiles, q.sess) :
        ImageOf(row, q.type) # NoImage /\ ImageOf(row, q.type) = q.url

\* C28: the empty service is tidy, and a POST or a DELETE (given the URL
\* its field holds) that is served alone, with no call failing, on a tidy
\* table and bucket leaves them tidy: by induction, so does every sequence
\* of such requests.
C28_NoOrphan ==
    /\ (profiles = {} /\ objects = {}) => Tidy(profiles, objects)
    /\ \A r \in Reqs :
          LET q == req[r] IN
          (/\ Done(r, "POST") \/ (Done(r, "DELETE") /\ GivenHeldUrl(q))
           /\ q.resp.status = 200 /\ AllOk(q)
           /\ Tidy(q.preProfiles, q.preObjects))
          => /\ Tidy(profiles, objects)
             /\ Cardinality(objects) <= Cardinality(q.preObjects) + 1
             /\ Done(r, "DELETE")
                   => Cardinality(objects) = Cardinality(q.preObjects) - 1
             /\ (Done(r, "POST") /\ ReadField(q) # NoImage)
                   => Cardinality(objects) = Cardinality(q.preObjects)

\* an upload replaced a stored image and left exactly one object
C28_Witness ==
    \E r \in Reqs :
        /\ Done(r, "POST") /\ req[r].resp.status = 200 /\ AllOk(req[r])
        /\ Tidy(req[r].preProfiles, req[r].preObjects)
        /\ ReadField(req[r]) # NoImage
        /\ objects = {req[r].path}
        /\ req[r].preObjects = {ExtractPath(ReadField(req[r]))}

\* ------------------------------------------- AuthProvider (auth-context)

\* the auth state change events of one mount
MaxEvents == 3

Sessions == Users \cup {NoUser}

\* the effect runs: isMounted = true, initialLoadDone = false, getUser() is
\* called with the session the client has, and onAuthStateChange subscribes
Mount(s) ==
    /\ auth.getUser = "idle" /\ ~auth.isMounted
    /\ auth' = [auth EXCEPT !.isMounted = TRUE, !.initialLoadDone = FALSE,
                            !.getUser = "pending", !.asked = s,
                            !.session = s]
    /\ UNCHANGED <<server, camera>>

\* the client signs in, signs out or refreshes its token and queues the
\* event for the subscribed callback
AuthEvent(s) ==
    /\ auth.isMounted
    /\ auth.handled + Len(auth.events) < MaxEvents
    /\ auth' = [auth EXCEPT !.session = s, !.events = Append(@, s)]
    /\ UNCHANGED <<server, camera>>

\* the onAuthStateChange callback: if (isMounted) { setUser(prevUser =>
\* prevUser?.id !== newUser?.id ? newUser : prevUser); setLoading(false) }
HandleAuthEvent ==
    /\ auth.events # <<>>
    /\ LET newUser == Head(auth.events) IN
       auth' = IF auth.isMounted
               THEN [auth EXCEPT
                       !.events = Tail(@),
                       !.user = IF @ # newUser THEN newUser ELSE @,
                       !.loading = FALSE,
                       !.handled = @ + 1]
               ELSE [auth EXCEPT !.events = Tail(@)]
    /\ UNCHANGED <<server, camera>>

\* supabase.auth.getUser() settles with the user, with an error, or throws:
\* if (isMounted && !initialLoadDone) { setUser(error ? null : user);
\* setLoading(false); initialLoadDone = true }
GetUserResolves(outcome) ==
    /\ auth.getUser = "pending"
    /\ auth' = IF auth.isMounted /\ ~auth.initialLoadDone
               THEN [auth EXCEPT
                       !.getUser = "resolved",
                       !.user = IF outcome = "user" THEN auth.asked
                                ELSE NoUser,
                       !.loading = FALSE,
                       !.initialLoadDone = TRUE]
               ELSE [auth EXCEPT !.getUser = "resolved"]
    /\ UNCHANGED <<server, camera>>

\* the effect's cleanup: isMounted = false; subscription.unsubscribe()
Unmount ==
    /\ auth.isMounted
    /\ auth' = [auth EXCEPT !.isMounted = FALSE]
    /\ UNCHANGED <<server, camera>>

NextAuthProvider ==
    \/ \E s \in Sessions : Mount(s)
    \/ \E s \in Sessions : AuthEvent(s)
    \/ HandleAuthEvent
    \/ \E outcome \in {"user", "error", "throw"} : GetUserResolves(outcome)
    \/ Unmount

SpecAuthProvider == Init /\ [][NextAuthProvider]_vars

\* C29: the settling of the initial getUser changes neither user nor loading
\* once the callback has handled an event, and after the cleanup no step
\* changes user or loading.
C29_InitialLoadYields ==
    [][/\ (/\ auth.getUser = "pending" /\ auth'.getUser = "resolved"
           /\ auth.handled > 0)
          => (auth'.user = auth.user /\ auth'.loading = auth.loading)
       /\ (~auth.isMounted /\ auth.getUser # "idle")
          => (auth'.user = auth.user /\ auth'.loading = auth.loading)]_vars

\* ------------------------------------------- ImageUpload camera flow

\* the streams getUserMedia grants in one run
MaxStreams == 2

\* setCameraStream(v) and the cleanup of the effect on [cameraStream], which
\* stops the tracks of the stream the state held before
SetCameraStream(c, v) ==
    [c EXCEPT !.cameraStream = v,
              !.live = IF c.cameraStream \notin {NoStream, v}
                       THEN @ \ {c.cameraStream} ELSE @]

\* startCamera up to its first await: setCameraError(null);
\* setShowCamera(true); getUserMedia({video: true}) is asked
StartCamera(i) ==
    /\ camera.mounted
    /\ camera.starts[i].pc = "idle"
    /\ camera' = [camera EXCEPT
                    !.cameraError = FALSE,
                    !.showCamera = TRUE,
                    !.starts[i] = [pc |-> "getUserMedia",
                                   stream |-> NoStream,
                                   seen |-> camera.cameraStream]]
    /\ UNCHANGED <<server, auth>>

\* getUserMedia settles: with a stream, whose tracks are live from then on
\* and the 100 ms timer starts, or with a rejection, which the catch block
\* handles with the cameraStream of the closure
GetUserMediaSettles(i) ==
    LET st == camera.starts[i] IN
    /\ st.pc = "getUserMedia"
    /\ \E granted \in BOOLEAN :
          IF granted /\ camera.granted < MaxStreams
          THEN camera' = [camera EXCEPT
                            !.granted = @ + 1,
                            !.live = @ \cup {camera.granted + 1},
                            !.starts[i] = [st EXCEPT
                                             !.pc = "delay",
                                             !.stream = camera.granted + 1]]
          ELSE camera' =
                 IF ~camera.mounted
                 THEN [camera EXCEPT
                         !.live = @ \ {st.seen},
                         !.starts[i] = IdleStart]
                 ELSE IF st.seen # NoStream
                 THEN [SetCameraStream(
                          [camera EXCEPT !.live = @ \ {st.seen}], NoStream)
                         EXCEPT !.cameraError = TRUE,
                                !.starts[i] = IdleStart]
                 ELSE [camera EXCEPT !.cameraError = TRUE,
                                     !.starts[i] = IdleStart]
    /\ UNCHANGED <<server, auth>>

\* the 100 ms have passed: with the modal rendered (videoRef.current) the
\* stream goes to the video element and play() is awaited; without it
\* setCameraStream(stream) follows at once
DelayElapses(i) ==
    LET st == camera.starts[i] IN
    /\ st.pc = "delay"
    /\ camera' = IF camera.mounted /\ camera.showCamera
                 THEN [camera EXCEPT !.starts[i].pc = "play"]
                 ELSE IF camera.mounted
                 THEN [SetCameraStream(camera, st.stream)
                         EXCEPT !.starts[i] = IdleStart]
                 ELSE [camera EXCEPT !.starts[i] = IdleStart]
    /\ UNCHANGED <<server, auth>>

\* play() settles (a rejection is caught and logged): setCameraStream(stream)
PlaySettles(i) ==
    LET st == camera.starts[i] IN
    /\ st.pc = "play"
    /\ camera' = IF camera.mounted
                 THEN [SetCameraStream(camera, st.stream)
                         EXCEPT !.starts[i] = IdleStart]
                 ELSE [camera EXCEPT !.starts[i] = IdleStart]
    /\ UNCHANGED <<server, auth>>

\* stopCamera, from the modal's close button: stop the tracks of
\* cameraStream if it is set, setCameraStream(null), setShowCamera(false),
\* setCameraError(null)
StopCamera ==
    /\ camera.mounted
    /\ camera.showCamera
    /\ camera' = [camera EXCEPT
                    !.live = @ \ {camera.cameraStream},
                    !.cameraStream = NoStream,
                    !.showCamera = FALSE,
                    !.cameraError = FALSE]
    /\ UNCHANGED <<server, auth>>

\* the component unmounts: the effect's cleanup stops the tracks of
\* cameraStream
UnmountCamera ==
    /\ camera.mounted
    /\ camera' = [camera EXCEPT
                    !.mounted = FALSE,
                    !.live = @ \ {camera.cameraStream}]
    /\ UNCHANGED <<server, auth>>

NextCamera ==
    \/ \E i \in Starts : StartCamera(i)
    \/ \E i \in Starts : GetUserMediaSettles(i)
    \/ \E i \in Starts : DelayElapses(i)
    \/ \E i \in Starts : PlaySettles(i)
    \/ StopCamera
    \/ UnmountCamera

SpecCamera == Init /\ [][NextCamera]_vars

\* C30: while the component is mounted and the modal is closed, no stream
\* that getUserMedia granted has live tracks.
C30_ClosedMeansReleased ==
    (camera.mounted /\ ~camera.showCamera) => camera.live = {}

====
